---------------------------- MODULE Spec2Model ----------------------------
(***************************************************************************)
(* A model of kalendarilo: the Julian-day-number date kernel               *)
(* (src/src/date.rs), the time-scale conversions (src/src/time_scales.rs)  *)
(* and the Chinese lunisolar calendar (src/src/chinese/mod.rs).            *)
(*                                                                         *)
(* Number representations.                                                 *)
(*  - TLC integers are 32-bit.  The date kernel computes in i64 and its    *)
(*    dates range over all of u32, so kernel values are held as "wide"     *)
(*    numerals: a sign and a magnitude of three base-10000 limbs, least    *)
(*    significant first, the top limb unbounded.  The W* operators are     *)
(*    exact integer arithmetic on them; WDivI and WRemI truncate toward    *)
(*    zero as Rust's / and % do.                                           *)
(*  - The calendar code only sees dates of the ephemeris years, far below  *)
(*    2^31; there a Date is the TLC integer of its JDN.                    *)
(*  - An f64 Julian date is held as a record [d, ms]: d whole days and     *)
(*    0 <= ms < 86400000 milliseconds.  The rounding of f64 (some 40       *)
(*    microseconds at these magnitudes) is below that grid.                *)
(***************************************************************************)
EXTENDS Integers, Sequences, FiniteSets, TLC

VARIABLES
    date,     \* date kernel: the Date under test (a wide JDN)
    left,     \* steps left in the window being walked
    call,     \* the last operation applied
    ret,      \* what that operation returned
    moon,     \* calendar: the shift of the ephemeris table's lunations
    sui,      \* calendar: what Annus::new returned, None before the call
    query,    \* calendar: the Date (a JDN) passed to the queries
    cand,     \* Annus::from_date: the local y, the candidate year
    tried,    \* Annus::from_date: the candidate years already stepped off
    instant,  \* time scales: the Tai passed to Ut::convert
    COMPUTED, \* leap_seconds: the static COMPUTED that data() returns
    DATA,     \* ephemeris: the static DATA, the records by year
    INIT,     \* the state of the Once of each of the two statics
    threads,  \* the threads that ask for the statics: where each one is
    ran,      \* how many times the initialisation of each static has begun
    overflow_checks  \* the build: whether integer overflow panics or wraps

kernelVars == <<date>>
statics == <<COMPUTED, DATA>>
suiVars == <<moon, sui, query, cand, tried>>
utVars == <<instant>>
onceVars == <<INIT, threads, ran>>
buildVars == <<overflow_checks>>
vars == <<date, left, call, ret, moon, sui, query, cand, tried, instant, COMPUTED, DATA,
          INIT, threads, ran, overflow_checks>>

---------------------------------------------------------------------------
(* Wide integers *)

Base == 100 * 100

Abs(n) == IF n < 0 THEN 0 - n ELSE n

\* Rust's integer division and remainder on TLC integers (b > 0).
TruncDiv(a, b) == IF a < 0 THEN 0 - ((0 - a) \div b) ELSE a \div b
TruncRem(a, b) == IF a < 0 THEN 0 - ((0 - a) % b) ELSE a % b
\* i32::rem_euclid for a positive modulus.
RemEuclid(a, b) == a % b

MagOf(n) == <<n % Base, (n \div Base) % Base, n \div (Base * Base)>>
MagZero == <<0, 0, 0>>
MagLt(a, b) ==
    \/ a[3] < b[3]
    \/ a[3] = b[3] /\ a[2] < b[2]
    \/ a[3] = b[3] /\ a[2] = b[2] /\ a[1] < b[1]
MagAdd(a, b) ==
    LET s1 == a[1] + b[1]
        s2 == a[2] + b[2] + s1 \div Base
        s3 == a[3] + b[3] + s2 \div Base
    IN  <<s1 % Base, s2 % Base, s3>>
\* a - b for b <= a
MagSub(a, b) ==
    LET d1 == a[1] - b[1]
        w1 == IF d1 < 0 THEN 1 ELSE 0
        d2 == a[2] - b[2] - w1
        w2 == IF d2 < 0 THEN 1 ELSE 0
    IN  <<d1 + w1 * Base, d2 + w2 * Base, a[3] - b[3] - w2>>
MagMul(a, k) ==
    LET p1 == a[1] * k
        p2 == a[2] * k + p1 \div Base
        p3 == a[3] * k + p2 \div Base
    IN  <<p1 % Base, p2 % Base, p3>>
\* long division by a TLC integer 0 < d < 2^31 / Base
MagDivRem(a, d) ==
    LET q3 == a[3] \div d
        t2 == (a[3] % d) * Base + a[2]
        q2 == t2 \div d
        t1 == (t2 % d) * Base + a[1]
    IN  [quot |-> <<t1 \div d, q2, q3>>, rem |-> t1 % d]

WMake(neg, mag) == [neg |-> neg /\ mag # MagZero, mag |-> mag]
WInt(n) == WMake(n < 0, MagOf(Abs(n)))
WNeg(x) == WMake(~x.neg, x.mag)
WAdd(x, y) ==
    IF x.neg = y.neg THEN WMake(x.neg, MagAdd(x.mag, y.mag))
    ELSE IF MagLt(x.mag, y.mag) THEN WMake(y.neg, MagSub(y.mag, x.mag))
    ELSE WMake(x.neg, MagSub(x.mag, y.mag))
WSub(x, y) == WAdd(x, WNeg(y))
WAddI(x, n) == WAdd(x, WInt(n))
WMulI(x, k) == WMake(x.neg # (k < 0), MagMul(x.mag, Abs(k)))
WDivI(x, d) == WMake(x.neg, MagDivRem(x.mag, d).quot)
WRemI(x, d) == IF x.neg THEN 0 - MagDivRem(x.mag, d).rem ELSE MagDivRem(x.mag, d).rem
WLt(x, y) ==
    IF x.neg # y.neg THEN x.neg
    ELSE IF x.neg THEN MagLt(y.mag, x.mag) ELSE MagLt(x.mag, y.mag)
WLe(x, y) == ~WLt(y, x)
\* the TLC integer of a wide numeral that fits one
WToInt(x) ==
    LET m == x.mag[1] + Base * x.mag[2] + Base * Base * x.mag[3]
    IN  IF x.neg THEN 0 - m ELSE m

U32Max == WAddI(WMulI(WInt(65536), 65536), 0 - 1)     \* 4294967295
InU32(x) == ~x.neg /\ WLe(x, U32Max)

None == [some |-> FALSE]
Some(v) == [some |-> TRUE, val |-> v]

---------------------------------------------------------------------------
(* src/src/date.rs *)

\* The i64 value handed to u32::try_from in Date::from_gregorian.
GregorianToJdn(year, month, day) ==
    LET a == TruncDiv(month - 14, 12)
        t1 == WDivI(WMulI(WInt(year + 4800 + a), 1461), 4)
        t2 == TruncDiv(367 * (month - 2 - 12 * a), 12)
        t3 == WDivI(WMulI(WDivI(WInt(year + 4900 + a), 100), 3), 4)
    IN  WAddI(WAddI(WSub(WAddI(t1, t2), t3), day), 0 - 32075)

\* from_gregorian with the value cast to the Date unchecked
FromGregorianUnchecked(year, month, day) == Some(GregorianToJdn(year, month, day))

FromGregorian(year, month, day) ==
    LET v == GregorianToJdn(year, month, day)
    IN  IF InU32(v) THEN Some(v) ELSE None

\* Gregorian with the year not carried back for January and February
GregorianNoCarry(jdn) ==
    LET f == WAddI(WAddI(WAddI(jdn, 1401),
                   WToInt(WDivI(WMulI(WDivI(WAddI(WMulI(jdn, 4), 274277), 146097), 3), 4))),
                   0 - 38)
        e == WAddI(WMulI(f, 4), 3)
        g == TruncDiv(WRemI(e, 1461), 4)
        h == 5 * g + 2
        day == TruncDiv(TruncRem(h, 153), 5) + 1
        month == TruncRem(TruncDiv(h, 153) + 2, 12) + 1
        year == WToInt(WDivI(e, 1461)) - 4716
    IN  [year |-> year, month |-> month, day |-> day]

Gregorian(jdn) ==
    LET f == WAddI(WAddI(WAddI(jdn, 1401),
                   WToInt(WDivI(WMulI(WDivI(WAddI(WMulI(jdn, 4), 274277), 146097), 3), 4))),
                   0 - 38)
        e == WAddI(WMulI(f, 4), 3)
        g == TruncDiv(WRemI(e, 1461), 4)
        h == 5 * g + 2
        day == TruncDiv(TruncRem(h, 153), 5) + 1
        month == TruncRem(TruncDiv(h, 153) + 2, 12) + 1
        year == WToInt(WDivI(e, 1461)) - 4716 + TruncDiv(12 + 2 - month, 12)
    IN  [year |-> year, month |-> month, day |-> day]

DayOfWeek(jdn) == WRemI(jdn, 7) + 1

\* sexagenary with the cycle counted from JDN 0
SexagenaryUncalibrated(jdn) == (WRemI(jdn, 60) % 60) + 1

\* Date::sexagenary
Sexagenary(jdn) == ((WRemI(jdn, 60) + 49) % 60) + 1

\* 2^32, and the limits of i32
TwoTo32 == WAddI(U32Max, 1)
I32Max == WAddI(WMulI(WInt(32768), 65536), 0 - 1)
I32Min == WMulI(WInt(32768), 0 - 65536)

\* The u32 arithmetic of the operators.  `+` and `-` on u32 panic on
\* overflow when the crate is compiled with overflow checks (the debug
\* profile) and wrap modulo 2^32 without them (the release profile);
\* strict_add_signed panics in both.  `checked` is the build's choice.
\* impl Add<u32> for Date: self.jdn + rhs
AddU32(jdn, rhs, checked) ==
    LET exact == WAdd(jdn, rhs)
    IN  IF InU32(exact) THEN [date |-> exact]
        ELSE IF checked THEN [panic |-> "attempt to add with overflow"]
        ELSE [date |-> WSub(exact, TwoTo32)]

\* impl Add<i32> for Date: self.jdn.strict_add_signed(rhs)
AddI32(jdn, rhs) ==
    LET exact == WAdd(jdn, rhs)
    IN  IF InU32(exact) THEN [date |-> exact]
        ELSE [panic |-> "attempt to add with overflow"]

\* impl Sub<Date> for Date: self.jdn - rhs.jdn
SubDate(jdn, rhs, checked) ==
    LET exact == WSub(jdn, rhs)
    IN  IF InU32(exact) THEN [days |-> exact]
        ELSE IF checked THEN [panic |-> "attempt to subtract with overflow"]
        ELSE [days |-> WAdd(exact, TwoTo32)]

IsLeap(year) ==
    \/ TruncRem(year, 4) = 0 /\ TruncRem(year, 100) # 0
    \/ TruncRem(year, 400) = 0

OrdinalDayNumber(month, day, leap) ==
    day + CASE month = 1 -> 0
            [] month = 2 -> 31
            [] OTHER -> 59 + TruncDiv(153 * (month - 3) + 2, 5) + (IF leap THEN 1 ELSE 0)

\* year_week_gregorian taking every year that starts on a Saturday to
\* follow a 52-week year
YearWeekNoLeapCheck(jdn) ==
    LET ymd == Gregorian(jdn)
        y == ymd.year
        y_is_leap == IF IsLeap(y) THEN 1 ELSE 0
        dn == OrdinalDayNumber(ymd.month, ymd.day, IsLeap(y))
        dow == DayOfWeek(jdn)
        dow1 == RemEuclid(dow - dn, 7) + 1
        dow_last == RemEuclid(dow1 + 364 + y_is_leap - 1, 7) + 1
    IN  IF dow1 > 4 /\ dow1 - 1 + dn <= 7
        THEN CASE dow1 < 6 -> <<y - 1, 53>>
               [] OTHER -> <<y - 1, 52>>
        ELSE IF dow_last < 4 /\ 365 + y_is_leap + 1 - dn <= dow_last
        THEN <<y + 1, 1>>
        ELSE <<y, TruncDiv(dow1 + dn - 2, 7) + (IF dow1 <= 4 THEN 1 ELSE 0)>>

YearWeekGregorian(jdn) ==
    LET ymd == Gregorian(jdn)
        y == ymd.year
        y_is_leap == IF IsLeap(y) THEN 1 ELSE 0
        dn == OrdinalDayNumber(ymd.month, ymd.day, IsLeap(y))
        dow == DayOfWeek(jdn)
        dow1 == RemEuclid(dow - dn, 7) + 1
        dow_last == RemEuclid(dow1 + 364 + y_is_leap - 1, 7) + 1
    IN  IF dow1 > 4 /\ dow1 - 1 + dn <= 7
        THEN CASE dow1 < 6 -> <<y - 1, 53>>
               [] dow1 = 6 -> <<y - 1, 52 + (IF IsLeap(y - 1) THEN 1 ELSE 0)>>
               [] OTHER -> <<y - 1, 52>>
        ELSE IF dow_last < 4 /\ 365 + y_is_leap + 1 - dn <= dow_last
        THEN <<y + 1, 1>>
        ELSE <<y, TruncDiv(dow1 + dn - 2, 7) + (IF dow1 <= 4 THEN 1 ELSE 0)>>

---------------------------------------------------------------------------
(* src/src/time_scales.rs *)

MsPerDay == 86400 * 1000

\* The Julian date of d days and ms milliseconds, ms carried into days.
Jd(d, ms) == [d |-> d + ms \div MsPerDay, ms |-> ms % MsPerDay]
JdAddMs(t, k) == Jd(t.d, t.ms + k)
JdLt(a, b) == a.d < b.d \/ (a.d = b.d /\ a.ms < b.ms)
JdLe(a, b) == ~JdLt(b, a)
\* min(a - b, cap) in milliseconds, for b <= a and cap below 24 days
JdDiffMsMin(a, b, cap) ==
    IF a.d - b.d > cap \div MsPerDay + 1 THEN cap
    ELSE LET diff == (a.d - b.d) * MsPerDay + a.ms - b.ms
         IN  IF diff < cap THEN diff ELSE cap

\* Date::from_gregorian(y, m, d).unwrap().jdn(), as a TLC integer
JdnOf(ymd) == WToInt(FromGregorian(ymd[1], ymd[2], ymd[3]).val)

\* slice::partition_point is a binary search for the index (from 0) of the
\* first element that fails the predicate; on a sorted slice that is the
\* number of elements that pass.
\* dates.partition_point(|date| date <= x) and (|date| date < x)
PartitionPointLe(dates, x) == Cardinality({i \in DOMAIN dates : dates[i] <= x})
PartitionPointLt(dates, x) == Cardinality({i \in DOMAIN dates : dates[i] < x})

\* leap_seconds.partition_point(|ls| ls.tai <= tai), between lo and hi
RECURSIVE PartitionPointTai(_, _, _, _)
PartitionPointTai(leap_seconds, tai, lo, hi) ==
    IF lo >= hi THEN lo
    ELSE CHOOSE point \in
        { IF JdLe(leap_seconds[mid + 1].tai, tai)
          THEN PartitionPointTai(leap_seconds, tai, mid + 1, hi)
          ELSE PartitionPointTai(leap_seconds, tai, lo, mid) :
          mid \in {lo + (hi - lo) \div 2} } : TRUE

TtMinusTaiMs == 32184
\* impl From<Tdb> for Tt; From<Tai> for Tt; From<Tt> for Tai; From<Tdb> for Tai
TtFromTdb(tdb) == tdb
TtFromTai(tai) == JdAddMs(tai, TtMinusTaiMs)
TaiFromTt(tt) == JdAddMs(tt, 0 - TtMinusTaiMs)
TaiFromTdb(tdb) == TaiFromTt(TtFromTdb(tdb))

DATES ==
    << <<1972, 6, 30>>, <<1972, 12, 31>>, <<1973, 12, 31>>, <<1974, 12, 31>>,
       <<1975, 12, 31>>, <<1976, 12, 31>>, <<1977, 12, 31>>, <<1978, 12, 31>>,
       <<1979, 12, 31>>, <<1981, 6, 30>>, <<1982, 6, 30>>, <<1983, 6, 30>>,
       <<1985, 6, 30>>, <<1987, 12, 31>>, <<1989, 12, 31>>, <<1990, 12, 31>>,
       <<1992, 6, 30>>, <<1993, 6, 30>>, <<1994, 6, 30>>, <<1995, 12, 31>>,
       <<1997, 6, 30>>, <<1998, 12, 31>>, <<2005, 12, 31>>, <<2008, 12, 31>>,
       <<2012, 6, 30>>, <<2015, 6, 30>>, <<2016, 12, 31>> >>
DATE_EXPIRES == <<2021, 12, 31>>

\* leap_seconds::estimate, in milliseconds.  The polynomial and cosine are
\* replaced by their second-order expansion in the whole days since
\* 2021-12-31 (Julian day number 2459580), which stays within 15 ms of them
\* through 2050; no date computed by the calendar code depends on the
\* difference.
Estimate(tt) ==
    LET days == tt.d - 2459580
    IN  219594 + (1006 * days) \div 10000 + (17 * (days \div 10) * (days \div 10)) \div 10000

\* static mut COMPUTED before INIT has run
Uncomputed == [starts |-> Jd(0, 0), leap_seconds |-> <<>>, expires |-> Jd(0, 0), c2 |-> 0]

\* leap_seconds::data(): the table INIT.call_once builds
LeapSecondsData ==
    LET starts == Jd(JdnOf(<<1972, 1, 1>>), 10 * 1000)
        leap_seconds ==
            [i \in 1..Len(DATES) |->
                LET delta_secs == 10 + (i - 1)
                IN  [tai |-> Jd(JdnOf(DATES[i]), (43199 + delta_secs) * 1000),
                     delta_secs |-> delta_secs]]
        expires == Jd(JdnOf(DATE_EXPIRES), (43199 + 10 + Len(DATES)) * 1000)
        c2 == (Len(DATES) + 10) * 1000 - Estimate(TtFromTai(expires))
    IN  [starts |-> starts, leap_seconds |-> leap_seconds, expires |-> expires, c2 |-> c2]

Todo == [panic |-> "not yet implemented: UT before UTC (1972-01-01)"]
IsPanic(v) == "panic" \in DOMAIN v

\* Ut::convert for a Tai.  (tai.0 - ls.tai.0) is a difference of Julian
\* dates, in days: .min(2.0) / 2.0 reaches one second after two days.
UtConvert(tai) ==
    LET data == COMPUTED
        i == PartitionPointTai(data.leap_seconds, tai, 0, Len(data.leap_seconds))
    IN  IF JdLt(tai, data.starts) THEN Todo
        ELSE IF JdLt(data.expires, tai)
        THEN [jd |-> JdAddMs(tai, 0 - (Estimate(TtFromTai(tai)) + data.c2))]
        ELSE IF i = 0 THEN [jd |-> JdAddMs(tai, 0 - 10 * 1000)]
        ELSE LET ls == data.leap_seconds[i]
                 leap == JdDiffMsMin(tai, ls.tai, 2 * MsPerDay) \div (2 * 86400)
             IN  [jd |-> JdAddMs(tai, 0 - (ls.delta_secs * 1000 + leap))]

\* date_in_timezone with the sum cast to u32 unrounded: the cast truncates
\* (a Julian date's whole number changes at noon)
DateInTimezoneTruncated(ut, tz_offset_minutes) ==
    LET truncated == JdAddMs(ut.jd, tz_offset_minutes * 60000).d
    IN  IF truncated < 0 THEN 0 ELSE truncated

\* Ut::date_in_timezone: f64::round, then the saturating cast to u32
\* (every date of the model is below 2^31)
DateInTimezone(ut, tz_offset_minutes) ==
    LET rounded == JdAddMs(ut.jd, tz_offset_minutes * 60000 + MsPerDay \div 2).d
    IN  IF rounded < 0 THEN 0 ELSE rounded

---------------------------------------------------------------------------
(* src/src/chinese/ephemeris.rs *)

(* The table itself, data/TDBtimes.txt, is outside the sources.  It is      *)
(* modelled from its contract: per year the 25 solar-term instants from one *)
(* winter solstice to the next and the four phases of 15 lunations starting *)
(* at the new moon before the first solstice, as TDB Julian dates; the last *)
(* solstice of a year is the first of the next year.  The instants follow   *)
(* the sun's mean Keplerian motion and the moon's mean synodic month,       *)
(* anchored at the winter solstice of 1999-12-22 07:44 UTC; the variable    *)
(* moon shifts every lunation by moon * MoonStepMin minutes, so that the    *)
(* new moons meet the solstices in every alignment.                        *)

EphFirst == 2000
EphYears == 3
MoonPhases == 30
MoonStepMin == 1440

\* the Julian date, at noon, that the table's minutes are counted from
EphEpochDay == 2451474
\* winter solstice of EphFirst's sui, minutes after the epoch
SolsticeMin == 87584
\* minutes from a winter solstice to each of the 25 solar terms
TermOffsetMin ==
    << 0, 21196, 42399, 63656, 85009, 106497, 128150, 149986, 172014,
       194226, 216603, 239116, 261721, 284372, 307015, 329600, 352079,
       374414, 396576, 418551, 440336, 461941, 483389, 504712, 525949 >>
LunationMin == 42524

TdbAt(min) == Jd(EphEpochDay + min \div 1440, (min % 1440) * 60000)

SolarTermMin(annus, k) ==
    SolsticeMin + (annus - EphFirst) * TermOffsetMin[25] + TermOffsetMin[k + 1]

\* the instant of lunation n, phase p (0 new moon .. 3 last quarter)
MoonPhaseMin(shift, n, p) ==
    shift * MoonStepMin + n * LunationMin + (p * LunationMin) \div 4

\* the last lunation whose new moon is not after the winter solstice
FirstLunation(shift, annus) ==
    (SolarTermMin(annus, 0) - shift * MoonStepMin) \div LunationMin

EphemerisAnnus(shift, annus) ==
    LET first == FirstLunation(shift, annus)
    IN  [annus |-> annus,
         solar_term |-> [k \in 1..25 |-> TdbAt(SolarTermMin(annus, k - 1))],
         moon_phase |-> [i \in 1..15 |-> [p \in 1..4 |->
             TdbAt(MoonPhaseMin(shift, first + i - 1, p - 1))]]]

\* parse_raw_data() of the table shifted by shift: the records by year
ParseRawData(shift) ==
    [annus \in EphFirst..(EphFirst + EphYears - 1) |-> EphemerisAnnus(shift, annus)]

\* ephemeris::Annus::get
EphemerisGet(annus) ==
    IF annus \in DOMAIN DATA THEN Some(DATA[annus]) ELSE None

---------------------------------------------------------------------------
(* src/src/chinese/mod.rs *)

\* seq[i] of the source, indices from 0
At(seq, i) == seq[i + 1]

Common(n) == [kind |-> "Common", num |-> n]
Leap(n) == [kind |-> "Leap", num |-> n]
Ok(v) == [ok |-> TRUE, val |-> v]
Err(e) == [ok |-> FALSE, err |-> e]

\* date_cst; a panic of Ut::convert unwinds through it
DateCst(tdb) ==
    LET ut == UtConvert(TaiFromTdb(tdb))
    IN  IF IsPanic(ut) THEN ut ELSE DateInTimezone(ut, 480)

\* In the recursive operators the values handed to the next turn are bound
\* as the element of a one-element set, which evaluates them once.

\* The loop of Annus::new with the comparison strict: a principal term on
\* the day of the next new moon taken for the month that ends there
RECURSIVE MonthsWalkStrict(_, _, _, _, _, _, _, _)
MonthsWalkStrict(new_moon_dates, solar_term, i, m11n_idx, needs_leap, month, term, months) ==
    IF i > m11n_idx THEN [needs_leap |-> needs_leap, months |-> months]
    ELSE IF needs_leap /\ (i + 1 >= Len(new_moon_dates) \/ term >= Len(solar_term))
    THEN [panic |-> "index out of bounds"]
    ELSE CHOOSE walked \in
        { MonthsWalkStrict(new_moon_dates, solar_term, i + 1, m11n_idx,
                      n.needs_leap, n.month, n.term, n.months) :
          n \in { IF needs_leap /\ At(new_moon_dates, i + 1) < DateCst(At(solar_term, term))
                   THEN [needs_leap |-> FALSE, month |-> month, term |-> term,
                         months |-> Append(months, [month |-> Leap(month),
                                                    date |-> At(new_moon_dates, i)])]
                   ELSE [needs_leap |-> needs_leap, month |-> (month % 12) + 1,
                         term |-> term + 2,
                         months |-> Append(months, [month |-> Common((month % 12) + 1),
                                                    date |-> At(new_moon_dates, i)])] } } : TRUE

\* The loop of Annus::new with the leap month given the number that
\* follows the preceding month's
RECURSIVE MonthsWalkLeapNext(_, _, _, _, _, _, _, _)
MonthsWalkLeapNext(new_moon_dates, solar_term, i, m11n_idx, needs_leap, month, term, months) ==
    IF i > m11n_idx THEN [needs_leap |-> needs_leap, months |-> months]
    ELSE IF needs_leap /\ (i + 1 >= Len(new_moon_dates) \/ term >= Len(solar_term))
    THEN [panic |-> "index out of bounds"]
    ELSE CHOOSE walked \in
        { MonthsWalkLeapNext(new_moon_dates, solar_term, i + 1, m11n_idx,
                      n.needs_leap, n.month, n.term, n.months) :
          n \in { IF needs_leap /\ At(new_moon_dates, i + 1) <= DateCst(At(solar_term, term))
                   THEN [needs_leap |-> FALSE, month |-> month, term |-> term,
                         months |-> Append(months, [month |-> Leap((month % 12) + 1),
                                                    date |-> At(new_moon_dates, i)])]
                   ELSE [needs_leap |-> needs_leap, month |-> (month % 12) + 1,
                         term |-> term + 2,
                         months |-> Append(months, [month |-> Common((month % 12) + 1),
                                                    date |-> At(new_moon_dates, i)])] } } : TRUE

\* The loop of Annus::new stepping one solar term a month, not to the
\* next principal term
RECURSIVE MonthsWalkEveryTerm(_, _, _, _, _, _, _, _)
MonthsWalkEveryTerm(new_moon_dates, solar_term, i, m11n_idx, needs_leap, month, term, months) ==
    IF i > m11n_idx THEN [needs_leap |-> needs_leap, months |-> months]
    ELSE IF needs_leap /\ (i + 1 >= Len(new_moon_dates) \/ term >= Len(solar_term))
    THEN [panic |-> "index out of bounds"]
    ELSE CHOOSE walked \in
        { MonthsWalkEveryTerm(new_moon_dates, solar_term, i + 1, m11n_idx,
                      n.needs_leap, n.month, n.term, n.months) :
          n \in { IF needs_leap /\ At(new_moon_dates, i + 1) <= DateCst(At(solar_term, term))
                   THEN [needs_leap |-> FALSE, month |-> month, term |-> term,
                         months |-> Append(months, [month |-> Leap(month),
                                                    date |-> At(new_moon_dates, i)])]
                   ELSE [needs_leap |-> needs_leap, month |-> (month % 12) + 1,
                         term |-> term + 1,
                         months |-> Append(months, [month |-> Common((month % 12) + 1),
                                                    date |-> At(new_moon_dates, i)])] } } : TRUE

\* The for loop of Annus::new, from index i on.
RECURSIVE MonthsWalk(_, _, _, _, _, _, _, _)
MonthsWalk(new_moon_dates, solar_term, i, m11n_idx, needs_leap, month, term, months) ==
    IF i > m11n_idx THEN [needs_leap |-> needs_leap, months |-> months]
    ELSE IF needs_leap /\ (i + 1 >= Len(new_moon_dates) \/ term >= Len(solar_term))
    THEN [panic |-> "index out of bounds"]
    ELSE CHOOSE walked \in
        { MonthsWalk(new_moon_dates, solar_term, i + 1, m11n_idx,
                      n.needs_leap, n.month, n.term, n.months) :
          n \in { IF needs_leap /\ At(new_moon_dates, i + 1) <= DateCst(At(solar_term, term))
                   THEN [needs_leap |-> FALSE, month |-> month, term |-> term,
                         months |-> Append(months, [month |-> Leap(month),
                                                    date |-> At(new_moon_dates, i)])]
                   ELSE [needs_leap |-> needs_leap, month |-> (month % 12) + 1,
                         term |-> term + 2,
                         months |-> Append(months, [month |-> Common((month % 12) + 1),
                                                    date |-> At(new_moon_dates, i)])] } } : TRUE

\* Annus::new with both arms of the match giving false and no assertion
\* after the loop: thirteen months are numbered through
AnnusNewLeapless(annus) ==
    LET got == EphemerisGet(annus)
        ephemeris == got.val
    IN  IF ~got.some THEN None
        ELSE CHOOSE built \in
          { LET ws == DateCst(At(ephemeris.solar_term, 0))
                ws_next == DateCst(At(ephemeris.solar_term, 24))
                m11_idx == PartitionPointLe(new_moon_dates, ws) - 1
                m11n_idx == PartitionPointLt(new_moon_dates, ws_next) - 1
                count == m11n_idx - m11_idx
                walk == IF m11_idx < 0
                        THEN [needs_leap |-> FALSE, months |-> <<>>]
                        ELSE MonthsWalk(new_moon_dates, ephemeris.solar_term,
                                        m11_idx, m11n_idx, FALSE, 10, 0, <<>>)
            IN  IF overflow_checks /\ (m11_idx < 0 \/ m11n_idx < 0 \/ count < 0)
                THEN [panic |-> "attempt to subtract with overflow"]
                ELSE IF count \notin {12, 13}
                THEN [panic |-> "months between winter solstices"]
                ELSE Some([annus |-> annus, ephemeris |-> ephemeris,
                           months |-> walk.months]) :
            new_moon_dates \in {[i \in 1..15 |-> DateCst(ephemeris.moon_phase[i][1])]} } : TRUE

\* Annus::new.  The indices are usize: with overflow checks a partition
\* point of 0 (or an end before the start) panics in the subtraction;
\* without them the index wraps to usize::MAX and the difference, taken
\* modulo 2^64, is the difference of the partition points when that is not
\* negative and a huge number otherwise.  From a wrapped m11_idx the range
\* m11_idx..=m11n_idx is empty and the loop does not run.
AnnusNew(annus) ==
    LET got == EphemerisGet(annus)
        ephemeris == got.val
    IN  IF ~got.some THEN None
        ELSE CHOOSE built \in
          { LET ws == DateCst(At(ephemeris.solar_term, 0))
                ws_next == DateCst(At(ephemeris.solar_term, 24))
                m11_idx == PartitionPointLe(new_moon_dates, ws) - 1
                m11n_idx == PartitionPointLt(new_moon_dates, ws_next) - 1
                count == m11n_idx - m11_idx
                walk == IF m11_idx < 0
                        THEN [needs_leap |-> count = 13, months |-> <<>>]
                        ELSE MonthsWalk(new_moon_dates, ephemeris.solar_term,
                                        m11_idx, m11n_idx, count = 13, 10, 0, <<>>)
            IN  IF overflow_checks /\ (m11_idx < 0 \/ m11n_idx < 0 \/ count < 0)
                THEN [panic |-> "attempt to subtract with overflow"]
                ELSE IF count \notin {12, 13}
                THEN [panic |-> "months between winter solstices"]
                ELSE IF IsPanic(walk) THEN walk
                ELSE IF walk.needs_leap THEN [panic |-> "assertion failed: !needs_leap"]
                ELSE Some([annus |-> annus, ephemeris |-> ephemeris,
                           months |-> walk.months]) :
            new_moon_dates \in {[i \in 1..15 |-> DateCst(ephemeris.moon_phase[i][1])]} } : TRUE

Last(seq) == seq[Len(seq)]

\* iter().take_while(|m| m.date <= date).count()
TakeWhileLe(months, day) ==
    IF \A j \in DOMAIN months : months[j].date <= day THEN Len(months)
    ELSE (CHOOSE j \in DOMAIN months :
            /\ months[j].date > day
            /\ \A k \in 1..(j - 1) : months[k].date <= day) - 1

\* ymd_for letting the end marker's own day through
YmdForPastEnd(self, day) ==
    LET begin == self.months[1].date
        end == Last(self.months).date
        n == TakeWhileLe(self.months, day)
        m == self.months[n]
        d == day - m.date + 1
        y == IF m.month.num >= 11 THEN self.annus - 1 ELSE self.annus
    IN  IF day < begin THEN Err("Before")
        ELSE IF day > end THEN Err("After")
        ELSE IF n = 0 THEN [panic |-> "called Option::unwrap() on a None value"]
        ELSE Ok(<<y, m.month, d>>)

\* ymd_for giving the eleventh month the sui's own year
YmdForYearOfEleventh(self, day) ==
    LET begin == self.months[1].date
        end == Last(self.months).date
        n == TakeWhileLe(self.months, day)
        m == self.months[n]
        d == day - m.date + 1
        y == IF m.month.num > 11 THEN self.annus - 1 ELSE self.annus
    IN  IF day < begin THEN Err("Before")
        ELSE IF day >= end THEN Err("After")
        ELSE IF n = 0 THEN [panic |-> "called Option::unwrap() on a None value"]
        ELSE Ok(<<y, m.month, d>>)

\* Annus::ymd_for
YmdFor(self, day) ==
    LET begin == self.months[1].date
        end == Last(self.months).date
        n == TakeWhileLe(self.months, day)
        m == self.months[n]
        d == day - m.date + 1
        y == IF m.month.num >= 11 THEN self.annus - 1 ELSE self.annus
    IN  IF day < begin THEN Err("Before")
        ELSE IF day >= end THEN Err("After")
        ELSE IF n = 0 THEN [panic |-> "called Option::unwrap() on a None value"]
        ELSE Ok(<<y, m.month, d>>)

\* solar_term_for numbering the terms of its own sui one too high
SolarTermForNumberedFromOne(self, day) ==
    LET last_annus == EphemerisGet(self.annus - 1)
        start23 == DateCst(At(last_annus.val.solar_term, 23))
        start22 == DateCst(At(last_annus.val.solar_term, 22))
        idx == PartitionPointLe([k \in 1..24 |-> DateCst(self.ephemeris.solar_term[k])],
                               day) - 1
        off == day - DateCst(At(self.ephemeris.solar_term, idx))
    IN  IF day < self.months[1].date THEN Err(<<"OtherAnnus", "Before">>)
        ELSE IF day >= DateCst(At(self.ephemeris.solar_term, 24))
        THEN Err(<<"OtherAnnus", "After">>)
        ELSE IF day < DateCst(At(self.ephemeris.solar_term, 0))
        THEN IF ~last_annus.some THEN Err("NoData")
             ELSE IF day >= start23
             THEN Ok(<<self.annus - 1, ((23 + 21) % 24) + 1, day - start23>>)
             ELSE IF day >= start22
             THEN Ok(<<self.annus - 1, ((22 + 21) % 24) + 1, day - start22>>)
             ELSE [panic |-> "incorrect data for annus"]
        ELSE Ok(<<self.annus, ((idx + 22) % 24) + 1, off>>)

\* solar_term_for trying term 22 of the previous sui before term 23
SolarTermForUnreversed(self, day) ==
    LET last_annus == EphemerisGet(self.annus - 1)
        start23 == DateCst(At(last_annus.val.solar_term, 23))
        start22 == DateCst(At(last_annus.val.solar_term, 22))
        idx == PartitionPointLe([k \in 1..24 |-> DateCst(self.ephemeris.solar_term[k])],
                               day) - 1
        off == day - DateCst(At(self.ephemeris.solar_term, idx))
    IN  IF day < self.months[1].date THEN Err(<<"OtherAnnus", "Before">>)
        ELSE IF day >= DateCst(At(self.ephemeris.solar_term, 24))
        THEN Err(<<"OtherAnnus", "After">>)
        ELSE IF day < DateCst(At(self.ephemeris.solar_term, 0))
        THEN IF ~last_annus.some THEN Err("NoData")
             ELSE IF day >= start22
             THEN Ok(<<self.annus - 1, ((22 + 21) % 24) + 1, day - start22>>)
             ELSE IF day >= start23
             THEN Ok(<<self.annus - 1, ((23 + 21) % 24) + 1, day - start23>>)
             ELSE [panic |-> "incorrect data for annus"]
        ELSE Ok(<<self.annus, ((idx + 21) % 24) + 1, off>>)

\* Annus::solar_term_for
SolarTermFor(self, day) ==
    LET last_annus == EphemerisGet(self.annus - 1)
        start23 == DateCst(At(last_annus.val.solar_term, 23))
        start22 == DateCst(At(last_annus.val.solar_term, 22))
        idx == PartitionPointLe([k \in 1..24 |-> DateCst(self.ephemeris.solar_term[k])],
                               day) - 1
        off == day - DateCst(At(self.ephemeris.solar_term, idx))
    IN  IF day < self.months[1].date THEN Err(<<"OtherAnnus", "Before">>)
        ELSE IF day >= DateCst(At(self.ephemeris.solar_term, 24))
        THEN Err(<<"OtherAnnus", "After">>)
        ELSE IF day < DateCst(At(self.ephemeris.solar_term, 0))
        THEN IF ~last_annus.some THEN Err("NoData")
             ELSE IF day >= start23
             THEN Ok(<<self.annus - 1, ((23 + 21) % 24) + 1, day - start23>>)
             ELSE IF day >= start22
             THEN Ok(<<self.annus - 1, ((22 + 21) % 24) + 1, day - start22>>)
             ELSE [panic |-> "incorrect data for annus"]
        ELSE Ok(<<self.annus, ((idx + 21) % 24) + 1, off>>)

---------------------------------------------------------------------------
(* The two statics and their Once: leap_seconds::COMPUTED with            *)
(* leap_seconds::INIT, ephemeris::DATA with ephemeris::INIT.               *)

NThreads == 2
Threads == 1..NThreads
Tables == {"leap_seconds", "ephemeris"}

\* a thread that is not inside leap_seconds::data() or ephemeris::Annus::get
IdleThread == [pc |-> "idle"]

\* no thread asking, the statics of `done` initialised and the others not
OnceAfter(done) ==
    /\ INIT = [tb \in Tables |-> IF tb \in done THEN "complete" ELSE "incomplete"]
    /\ ran = [tb \in Tables |-> IF tb \in done THEN 1 ELSE 0]
    /\ threads = [t \in Threads |-> IdleThread]

---------------------------------------------------------------------------
(* The date kernel under test: a Date walked day by day through windows   *)
(* of the u32 range, each operation applied to it.                         *)

WindowDays == 800
ModernDays == 11600

\* first days of the windows: JDN 0, the turn of the years -1/0/1,
\* 1899-12-01, 1969-12-15, 2099-12-01 and the last days of u32
WindowStarts ==
    { <<WInt(0), WindowDays>>,
      <<FromGregorian(-1, 12, 1).val, WindowDays>>,
      <<FromGregorian(1899, 12, 1).val, WindowDays>>,
      <<FromGregorian(1969, 12, 15).val, ModernDays>>,
      <<FromGregorian(2099, 12, 1).val, WindowDays>>,
      <<WAddI(U32Max, 0 - WindowDays), WindowDays>> }

\* the calendar's and the time scales' variables while they are not in use
IdleSui == moon = 0 /\ sui = None /\ query = 0 /\ cand = 0 /\ tried = {}
IdleUt == instant = Jd(0, 0)
\* the statics before their INIT has run
IdleStatics == COMPUTED = Uncomputed /\ DATA = <<>>
IdleDate == date = WInt(0)

InitDate ==
    /\ \E w \in WindowStarts : date = w[1] /\ left = w[2]
    /\ call = "none"
    /\ ret = None
    /\ IdleSui /\ IdleUt /\ IdleStatics
    /\ OnceAfter({})
    /\ overflow_checks \in BOOLEAN

\* impl Add<u32> for Date, by one day
Tomorrow ==
    /\ left > 0
    /\ WLt(date, U32Max)
    /\ date' = WAddI(date, 1)
    /\ left' = left - 1
    /\ call' = "none"
    /\ ret' = None
    /\ UNCHANGED <<suiVars, utVars, statics, onceVars, buildVars>>

CallGregorian ==
    /\ call = "none"
    /\ call' = "gregorian"
    /\ ret' = Gregorian(date)
    /\ UNCHANGED <<date, left, suiVars, utVars, statics, onceVars, buildVars>>

\* Date::from_gregorian applied to what gregorian() returned
CallFromGregorian ==
    /\ call = "gregorian"
    /\ call' = "from_gregorian"
    /\ ret' = [ymd |-> ret, back |-> FromGregorian(ret.year, ret.month, ret.day)]
    /\ UNCHANGED <<date, left, suiVars, utVars, statics, onceVars, buildVars>>

CallYearWeek ==
    /\ call = "none"
    /\ call' = "year_week_gregorian"
    /\ ret' = YearWeekGregorian(date)
    /\ UNCHANGED <<date, left, suiVars, utVars, statics, onceVars, buildVars>>

\* Date::from_gregorian on the day before and the day after what
\* gregorian() returned, as the same month's day - 1 and day + 1
CallFromGregorianNear ==
    /\ call = "gregorian"
    /\ call' = "from_gregorian_near"
    /\ \E off \in {0 - 1, 1} :
         ret' = [of |-> ret, off |-> off,
                 back |-> FromGregorian(ret.year, ret.month, ret.day + off)]
    /\ UNCHANGED <<date, left, suiVars, utVars, statics, onceVars, buildVars>>

\* Date::day_of_week and Date::sexagenary
CallCycles ==
    /\ call = "none"
    /\ call' = "cycles"
    /\ ret' = [day_of_week |-> DayOfWeek(date), sexagenary |-> Sexagenary(date)]
    /\ UNCHANGED <<date, left, suiVars, utVars, statics, onceVars, buildVars>>

\* day counts added to the Date, and Dates subtracted from it
AddendsU32 == {WInt(0), WInt(1), WInt(WindowDays), U32Max}
AddendsI32 == {WInt(0 - 1), WInt(1), WInt(0 - WindowDays), I32Min, I32Max}
Subtrahends == {d \in {WInt(0), date, WAddI(date, 1), U32Max} : InU32(d)}

\* date + rhs for a u32
CallAddU32 ==
    /\ call = "none"
    /\ call' = "add_u32"
    /\ \E rhs \in AddendsU32 :
         ret' = [rhs |-> rhs, out |-> AddU32(date, rhs, overflow_checks)]
    /\ UNCHANGED <<date, left, suiVars, utVars, statics, onceVars, buildVars>>

\* date + rhs for an i32
CallAddI32 ==
    /\ call = "none"
    /\ call' = "add_i32"
    /\ \E rhs \in AddendsI32 :
         ret' = [rhs |-> rhs, out |-> AddI32(date, rhs)]
    /\ UNCHANGED <<date, left, suiVars, utVars, statics, onceVars, buildVars>>

\* date - rhs for a Date
CallSub ==
    /\ call = "none"
    /\ call' = "sub"
    /\ \E rhs \in Subtrahends :
         ret' = [rhs |-> rhs, out |-> SubDate(date, rhs, overflow_checks)]
    /\ UNCHANGED <<date, left, suiVars, utVars, statics, onceVars, buildVars>>

NextDate ==
    \/ Tomorrow
    \/ CallGregorian
    \/ CallFromGregorian
    \/ CallFromGregorianNear
    \/ CallYearWeek
    \/ CallCycles
    \/ CallAddU32
    \/ CallAddI32
    \/ CallSub

SpecDate == InitDate /\ [][NextDate]_vars



---------------------------------------------------------------------------
(* The calendar under test: one table of lunations, a sui built from it,   *)
(* and a Date walked day by day across the sui, each query applied to it.  *)

WalkMargin == 3

IsSome(v) == "some" \in DOMAIN v /\ v.some
Running == [running |-> TRUE]
\* between the call of from_date and its return nothing else runs
Returned == ret # Running

InitSui ==
    /\ moon \in 0..(MoonPhases - 1)
    /\ sui = None /\ query = 0 /\ cand = 0 /\ tried = {}
    /\ left = 0
    /\ call = "none"
    /\ ret = None
    /\ IdleDate /\ IdleUt
    /\ COMPUTED = LeapSecondsData
    /\ DATA = ParseRawData(moon)
    /\ OnceAfter(Tables)
    /\ overflow_checks \in BOOLEAN

\* Annus::new(annus); the walk then starts WalkMargin days before the sui
\* and ends WalkMargin days after its second winter solstice
CallNew ==
    /\ call = "none" /\ sui = None
    /\ \E annus \in (EphFirst - 1)..(EphFirst + EphYears) :
       \E built \in {AnnusNew(annus)} :
         LET first == built.val.months[1].date - WalkMargin
             last == DateCst(At(built.val.ephemeris.solar_term, 24)) + WalkMargin
         IN  /\ sui' = built
             /\ ret' = built
             /\ query' = IF IsSome(built) /\ built.val.months # <<>> THEN first ELSE 0
             /\ left' = IF IsSome(built) /\ built.val.months # <<>> THEN last - first ELSE 0
    /\ call' = "new"
    /\ UNCHANGED <<moon, cand, tried, kernelVars, utVars, statics, onceVars, buildVars>>

\* the next day; a from_date that has returned has dropped its locals
NextDay ==
    /\ IsSome(sui) /\ Returned
    /\ left > 0
    /\ query' = query + 1
    /\ left' = left - 1
    /\ call' = "none"
    /\ ret' = None
    /\ cand' = 0 /\ tried' = {}
    /\ UNCHANGED <<moon, sui, kernelVars, utVars, statics, onceVars, buildVars>>

CallYmdFor ==
    /\ IsSome(sui) /\ call \in {"new", "none"}
    /\ call' = "ymd_for"
    /\ \E r \in {YmdFor(sui.val, query)} : ret' = r
    /\ UNCHANGED <<left, suiVars, kernelVars, utVars, statics, onceVars, buildVars>>

CallSolarTermFor ==
    /\ IsSome(sui) /\ call \in {"new", "none"}
    /\ call' = "solar_term_for"
    /\ \E r \in {SolarTermFor(sui.val, query)} : ret' = r
    /\ UNCHANGED <<left, suiVars, kernelVars, utVars, statics, onceVars, buildVars>>

\* Annus::from_date(query), up to the loop; asked for the days within
\* WalkMargin of the sui's first day and from WalkMargin before its end
\* marker on, where the search has to step
FromDateEnter ==
    /\ IsSome(sui) /\ call \in {"new", "none"}
    /\ \/ query < sui.val.months[1].date + WalkMargin
       \/ query >= Last(sui.val.months).date - WalkMargin
    /\ call' = "from_date"
    /\ ret' = Running
    /\ cand' = Gregorian(WInt(query)).year
    /\ tried' = {}
    /\ UNCHANGED <<left, moon, sui, query, kernelVars, utVars, statics, onceVars, buildVars>>

\* one turn of the loop of Annus::from_date
FromDateLoop ==
    /\ call = "from_date" /\ ret = Running
    /\ \E annus \in {AnnusNew(cand)} :
       LET start == annus.val.months[1].date
           end == Last(annus.val.months).date
       IN  IF IsPanic(annus) \/ ~annus.some
           THEN ret' = annus /\ UNCHANGED <<cand, tried>>
           ELSE IF start <= query /\ query < end
           THEN ret' = annus /\ UNCHANGED <<cand, tried>>
           ELSE /\ cand' = cand + (IF query < start THEN 0 - 1 ELSE 1)
                /\ tried' = tried \cup {cand}
                /\ ret' = ret
    /\ UNCHANGED <<left, call, moon, sui, query, kernelVars, utVars, statics, onceVars, buildVars>>

NextSui ==
    \/ CallNew
    \/ NextDay
    \/ CallYmdFor
    \/ CallSolarTermFor
    \/ FromDateEnter
    \/ FromDateLoop

SpecSui == InitSui /\ [][NextSui]_vars

---------------------------------------------------------------------------
(* Annus::new under test on records of any shape: new moons a whole       *)
(* number of days apart, solar terms evenly spaced up to the last and the  *)
(* closing solstice at any distance, the first solstice before, on or      *)
(* after the first new moon.  Every instant is noon UT of its day.         *)

SynLeadMax == 29
SynLate == 2
SynLunations == {29, 30}
SynHalfTerms == {13, 15, 16}
SynYears == {355, 370, 384, 400}

\* the day (counted from EphEpochDay) of the first new moon
SynFirst == 40

\* the record of EphFirst with new moons every lun days from SynFirst, the
\* first solstice lead days after the first new moon, solar terms every
\* half days and the closing solstice yearlen days after the first
SyntheticAnnus(lun, lead, half, yearlen) ==
    [annus |-> EphFirst,
     solar_term |-> [k \in 1..25 |->
         TdbAt(1440 * (SynFirst + lead + (IF k = 25 THEN yearlen ELSE (k - 1) * half)))],
     moon_phase |-> [i \in 1..15 |-> [p \in 1..4 |->
         TdbAt(1440 * (SynFirst + (i - 1) * lun + (p - 1) * 7))]]]

InitWalk ==
    /\ \E lun \in SynLunations : \E lead \in (0 - SynLate)..SynLeadMax :
       \E half \in SynHalfTerms : \E yearlen \in SynYears :
         DATA = [annus \in {EphFirst} |-> SyntheticAnnus(lun, lead, half, yearlen)]
    /\ moon = 0 /\ sui = None /\ query = 0 /\ cand = 0 /\ tried = {}
    /\ left = 0
    /\ call = "none"
    /\ ret = None
    /\ IdleDate /\ IdleUt
    /\ COMPUTED = LeapSecondsData
    /\ OnceAfter(Tables)
    /\ overflow_checks \in BOOLEAN

SpecWalk == InitWalk /\ [][CallNew]_vars

---------------------------------------------------------------------------
(* The time scales under test: a Tai stepped by seconds and by hours from  *)
(* instants shortly before the edges of the leap-second table.             *)

UtSteps == 40

\* twenty seconds before: the midnight that begins 1972-01-01, the noon of
\* that day, the first leap second, the last leap second, the table's expiry
UtStarts ==
    { Jd(JdnOf(<<1972, 1, 1>>) - 1, MsPerDay \div 2 - 20 * 1000),
      Jd(JdnOf(<<1972, 1, 1>>) - 1, MsPerDay - 20 * 1000),
      JdAddMs(LeapSecondsData.leap_seconds[1].tai, 0 - 20 * 1000),
      JdAddMs(LeapSecondsData.leap_seconds[Len(DATES)].tai, 0 - 20 * 1000),
      JdAddMs(LeapSecondsData.expires, 0 - 20 * 1000) }

InitUt ==
    /\ instant \in UtStarts
    /\ left = UtSteps
    /\ call = "none"
    /\ ret = None
    /\ IdleDate /\ IdleSui
    /\ COMPUTED = LeapSecondsData
    /\ DATA = <<>>
    /\ OnceAfter({"leap_seconds"})
    /\ overflow_checks \in BOOLEAN

TickSecond ==
    /\ left > 0
    /\ instant' = JdAddMs(instant, 1000)
    /\ left' = left - 1
    /\ call' = "none"
    /\ ret' = None
    /\ UNCHANGED <<kernelVars, suiVars, statics, onceVars, buildVars>>

TickHour ==
    /\ left > 0
    /\ instant' = JdAddMs(instant, 3600 * 1000)
    /\ left' = left - 1
    /\ call' = "none"
    /\ ret' = None
    /\ UNCHANGED <<kernelVars, suiVars, statics, onceVars, buildVars>>

\* Ut::convert(instant)
CallConvert ==
    /\ call = "none"
    /\ call' = "convert"
    /\ \E r \in {UtConvert(instant)} : ret' = r
    /\ UNCHANGED <<left, instant, kernelVars, suiVars, statics, onceVars, buildVars>>

\* date_cst(Tdb(instant)); a panic of Ut::convert unwinds through it
CallDateCst ==
    /\ call = "none"
    /\ call' = "date_cst"
    /\ \E ut \in {UtConvert(TaiFromTdb(instant))} :
         ret' = IF IsPanic(ut) THEN ut ELSE [date |-> DateCst(instant)]
    /\ UNCHANGED <<left, instant, kernelVars, suiVars, statics, onceVars, buildVars>>

\* the offsets of UTC-12, UTC, Beijing time and UTC+14, in minutes
TzOffsets == {0 - 720, 0, 480, 840}

\* Ut(instant).date_in_timezone(tz_offset_minutes)
CallDateInTimezone ==
    /\ call = "none"
    /\ call' = "date_in_timezone"
    /\ \E tz_offset_minutes \in TzOffsets :
         ret' = [tz_offset_minutes |-> tz_offset_minutes,
                 date |-> DateInTimezone([jd |-> instant], tz_offset_minutes)]
    /\ UNCHANGED <<left, instant, kernelVars, suiVars, statics, onceVars, buildVars>>

NextUt == TickSecond \/ TickHour \/ CallConvert \/ CallDateCst \/ CallDateInTimezone

SpecUt == InitUt /\ [][NextUt]_vars

---------------------------------------------------------------------------
(* The two lazily built statics under test: threads call                   *)
(* leap_seconds::data() and ephemeris::Annus::get concurrently, each call  *)
(* passing through INIT.call_once and then taking the static.  The body of *)
(* leap_seconds::data writes COMPUTED field by field and push by push.     *)

InitOnce ==
    /\ IdleStatics
    /\ OnceAfter({})
    /\ IdleDate /\ IdleSui /\ IdleUt
    /\ left = 0
    /\ call = "none"
    /\ ret = None
    /\ overflow_checks \in BOOLEAN

onceOthers == <<date, left, call, ret, suiVars, utVars, buildVars>>

\* a thread enters data() or get()
Call(t) ==
    /\ threads[t].pc = "idle"
    /\ \E tb \in Tables : threads' = [threads EXCEPT ![t] = [pc |-> "call_once", table |-> tb]]
    /\ UNCHANGED <<INIT, ran, statics, onceOthers>>

\* the first statement of a body: the first field written
BodyEntry(tb) == IF tb = "leap_seconds" THEN "starts" ELSE "parse"

\* a call_once that runs the closure whenever the Once is not complete,
\* another thread being inside it or not
CallOnceUnguarded(t) ==
    /\ threads[t].pc = "call_once"
    /\ LET tb == threads[t].table
       IN  IF INIT[tb] # "complete"
           THEN /\ INIT' = [INIT EXCEPT ![tb] = "running"]
                /\ ran' = [ran EXCEPT ![tb] = @ + 1]
                /\ threads' = [threads EXCEPT ![t] = [pc |-> BodyEntry(tb), table |-> tb, k |-> 1]]
           ELSE /\ UNCHANGED <<INIT, ran>>
                /\ threads' = [threads EXCEPT ![t] = [pc |-> "get", table |-> tb]]
    /\ UNCHANGED <<statics, onceOthers>>

\* INIT.call_once: the first caller runs the closure, a caller that finds
\* another inside it waits, a caller that finds it complete goes on
CallOnce(t) ==
    /\ threads[t].pc = "call_once"
    /\ LET tb == threads[t].table
       IN  /\ INIT[tb] # "running"
           /\ IF INIT[tb] = "incomplete"
              THEN /\ INIT' = [INIT EXCEPT ![tb] = "running"]
                   /\ ran' = [ran EXCEPT ![tb] = @ + 1]
                   /\ threads' = [threads EXCEPT ![t] = [pc |-> BodyEntry(tb), table |-> tb, k |-> 1]]
              ELSE /\ UNCHANGED <<INIT, ran>>
                   /\ threads' = [threads EXCEPT ![t] = [pc |-> "get", table |-> tb]]
    /\ UNCHANGED <<statics, onceOthers>>

\* COMPUTED.starts = starts
BodyStarts(t) ==
    /\ threads[t].pc = "starts"
    /\ COMPUTED' = [COMPUTED EXCEPT !.starts = Jd(JdnOf(<<1972, 1, 1>>), 10 * 1000)]
    /\ threads' = [threads EXCEPT ![t].pc = "push"]
    /\ UNCHANGED <<DATA, INIT, ran, onceOthers>>

\* one turn of the loop over (10..).zip(DATES)
BodyPush(t) ==
    /\ threads[t].pc = "push"
    /\ threads[t].k <= Len(DATES)
    /\ LET k == threads[t].k
           delta_secs == 10 + (k - 1)
           tai == Jd(JdnOf(DATES[k]), (43199 + delta_secs) * 1000)
       IN  COMPUTED' = [COMPUTED EXCEPT
               !.leap_seconds = Append(@, [tai |-> tai, delta_secs |-> delta_secs])]
    /\ threads' = [threads EXCEPT ![t].k = @ + 1]
    /\ UNCHANGED <<DATA, INIT, ran, onceOthers>>

\* after the loop: COMPUTED.expires = tai; COMPUTED.c2 = c2
BodyExpires(t) ==
    /\ threads[t].pc = "push"
    /\ threads[t].k > Len(DATES)
    /\ LET tai == Jd(JdnOf(DATE_EXPIRES), (43199 + 10 + Len(DATES)) * 1000)
           c2 == (Len(DATES) + 10) * 1000 - Estimate(TtFromTai(tai))
       IN  COMPUTED' = [COMPUTED EXCEPT !.expires = tai, !.c2 = c2]
    /\ threads' = [threads EXCEPT ![t] = [pc |-> "ran", table |-> threads[t].table]]
    /\ UNCHANGED <<DATA, INIT, ran, onceOthers>>

\* the body of ephemeris::Annus::get: DATA = res
BodyParse(t) ==
    /\ threads[t].pc = "parse"
    /\ DATA' = ParseRawData(moon)
    /\ threads' = [threads EXCEPT ![t] = [pc |-> "ran", table |-> threads[t].table]]
    /\ UNCHANGED <<COMPUTED, INIT, ran, onceOthers>>

\* the closure has returned: the Once is complete
CallOnceReturn(t) ==
    /\ threads[t].pc = "ran"
    /\ INIT' = [INIT EXCEPT ![threads[t].table] = "complete"]
    /\ threads' = [threads EXCEPT ![t].pc = "get"]
    /\ UNCHANGED <<ran, statics, onceOthers>>

\* unsafe { &COMPUTED }, unsafe { DATA.binary_search_by_key(..) }: the
\* caller takes what the static holds
Get(t) ==
    /\ threads[t].pc = "get"
    /\ threads' = [threads EXCEPT ![t] =
           [pc |-> "done", table |-> threads[t].table,
            got |-> IF threads[t].table = "leap_seconds" THEN COMPUTED ELSE DATA]]
    /\ UNCHANGED <<INIT, ran, statics, onceOthers>>

\* the caller is through with the table
Return(t) ==
    /\ threads[t].pc = "done"
    /\ threads' = [threads EXCEPT ![t] = IdleThread]
    /\ UNCHANGED <<INIT, ran, statics, onceOthers>>

NextOnce ==
    \E t \in Threads :
        \/ Call(t)
        \/ CallOnce(t)
        \/ BodyStarts(t)
        \/ BodyPush(t)
        \/ BodyExpires(t)
        \/ BodyParse(t)
        \/ CallOnceReturn(t)
        \/ Get(t)
        \/ Return(t)

SpecOnce == InitOnce /\ [][NextOnce]_vars

---------------------------------------------------------------------------
(* Properties of the date kernel *)

\* C1: from_gregorian applied to the (year, month, day) that gregorian()
\* returns for a Date gives back Some of the same Date.
C1_RoundTrip ==
    call = "from_gregorian" => ret.back = Some(date)

\* the round trip made on 29 February of year 0
C1_Witness ==
    /\ call = "from_gregorian"
    /\ ret.ymd = [year |-> 0, month |-> 2, day |-> 29]
    /\ ret.back = Some(date)

\* the round trip made on a day of a negative year
C1_WitnessNegativeYear ==
    /\ call = "from_gregorian"
    /\ ret.ymd.year < 0
    /\ ret.back = Some(date)

\* ISO 8601, stated on day numbers.  The Monday that begins week 1 of
\* year y: three days before the first Thursday of January.
Week1Monday(y) ==
    LET jan1 == GregorianToJdn(y, 1, 1)
        dowJan1 == ((WRemI(jan1, 7) + 7) % 7) + 1
    IN  WAddI(jan1, ((4 - dowJan1 + 7) % 7) - 3)

IsoYearWeek(jdn) ==
    LET y == Gregorian(jdn).year
    IN  IF WLe(Week1Monday(y + 1), jdn) THEN <<y + 1, 1>>
        ELSE IF WLe(Week1Monday(y), jdn)
        THEN <<y, WToInt(WSub(jdn, Week1Monday(y))) \div 7 + 1>>
        ELSE <<y - 1, WToInt(WSub(jdn, Week1Monday(y - 1))) \div 7 + 1>>

\* C2: year_week_gregorian returns the ISO-8601 (year, week) of the day:
\* weeks counted from the Monday-to-Sunday week holding the year's first
\* Thursday, late December days of the next year's week 1 giving (y+1, 1)
\* and early January days before week 1 giving the previous year's last
\* week, 52 or 53.
C2_IsoWeek ==
    call = "year_week_gregorian" => ret = IsoYearWeek(date)

\* a 1 January that is a Saturday in week 53 of the previous year, that
\* year a leap year beginning on a Thursday
C2_Witness ==
    /\ call = "year_week_gregorian"
    /\ Gregorian(date).month = 1
    /\ Gregorian(date).day = 1
    /\ DayOfWeek(date) = 6
    /\ ret = <<Gregorian(date).year - 1, 53>>

\* a December day in week 1 of the next year
C2_WitnessNextYear ==
    /\ call = "year_week_gregorian"
    /\ Gregorian(date).month = 12
    /\ ret = <<Gregorian(date).year + 1, 1>>


\* the exact result of the operation that returned
ExactResult ==
    IF call = "sub" THEN WSub(date, ret.rhs) ELSE WAdd(date, ret.rhs)

\* C13: Date + u32, Date + i32 and Date - Date never wrap or truncate:
\* when the exact result lies outside 0..=u32::MAX the operation panics,
\* and otherwise it returns the exact result.
C13_NeverWraps ==
    call \in {"add_u32", "add_i32", "sub"}
    => IF InU32(ExactResult)
       THEN ret.out = (IF call = "sub" THEN [days |-> ExactResult]
                                       ELSE [date |-> ExactResult])
       ELSE IsPanic(ret.out)

\* C14: from_gregorian(y, m, d) returns None exactly when the day number
\* lies outside 0..=u32::MAX and otherwise the Date of that number:
\* (-4713, 11, 24) is JDN 0 and the day before it gives None,
\* (11754508, 12, 13) is JDN u32::MAX and the day after it gives None.
C14_NoneOutsideU32 ==
    call = "from_gregorian_near"
    => /\ ret.back = (IF InU32(WAddI(date, ret.off))
                      THEN Some(WAddI(date, ret.off)) ELSE None)
       /\ date = WInt(0) => ret.of = [year |-> 0 - 4713, month |-> 11, day |-> 24]
       /\ date = U32Max => ret.of = [year |-> 11754508, month |-> 12, day |-> 13]

\* from_gregorian(-4713, 11, 23) has returned None
C14_Witness ==
    /\ call = "from_gregorian_near"
    /\ date = WInt(0) /\ ret.off = 0 - 1
    /\ ret.back = None

\* from_gregorian(11754508, 12, 14) has returned None
C14_WitnessAbove ==
    /\ call = "from_gregorian_near"
    /\ date = U32Max /\ ret.off = 1
    /\ ret.back = None

\* C17: day_of_week is in 1..=7 and sexagenary in 1..=60; the next day
\* has day_of_week mod 7 + 1 and sexagenary mod 60 + 1; JDN 2451545
\* (2000-01-01) has day_of_week 6 and sexagenary 55.
C17_Cycles ==
    call = "cycles"
    => /\ ret.day_of_week \in 1..7
       /\ ret.sexagenary \in 1..60
       /\ WLt(date, U32Max)
          => /\ DayOfWeek(WAddI(date, 1)) = (ret.day_of_week % 7) + 1
             /\ Sexagenary(WAddI(date, 1)) = (ret.sexagenary % 60) + 1
       /\ date = WInt(2451545) => ret.day_of_week = 6 /\ ret.sexagenary = 55

\* the cycles of 2000-01-01
C17_Witness ==
    /\ call = "cycles"
    /\ date = WInt(2451545)
    /\ ret = [day_of_week |-> 6, sexagenary |-> 55]

\* a Sunday that ends a sexagenary cycle: both wrap to 1 on the next day
C17_WitnessWrap ==
    /\ call = "cycles"
    /\ ret = [day_of_week |-> 7, sexagenary |-> 60]
    /\ DayOfWeek(WAddI(date, 1)) = 1 /\ Sexagenary(WAddI(date, 1)) = 1

---------------------------------------------------------------------------
(* Properties of the calendar *)

IsOk(r) == "ok" \in DOMAIN r /\ r.ok
Begin == sui.val.months[1].date
End == Last(sui.val.months).date
\* the Beijing-time date of solar term k (from 0) of the sui
TermDate(k) == DateCst(At(sui.val.ephemeris.solar_term, k))
LeapEntries == {j \in DOMAIN sui.val.months : sui.val.months[j].month.kind = "Leap"}

\* C3: a Sui that Annus::new returns has 12 or 13 months before its end
\* marker; with 13 exactly one entry is a Leap month, with 12 none is.
C3_MonthCount ==
    (call = "new" /\ IsSome(sui)) =>
        LET n == Len(sui.val.months) - 1
        IN  /\ n \in {12, 13}
            /\ n = 13 => Cardinality(LeapEntries) = 1
            /\ n = 12 => LeapEntries = {}

\* a sui of 13 months, one of them Leap
C3_Witness ==
    /\ call = "new" /\ IsSome(sui)
    /\ Len(sui.val.months) - 1 = 13
    /\ Cardinality(LeapEntries) = 1

\* a sui of 12 months, none Leap
C3_WitnessCommon ==
    /\ call = "new" /\ IsSome(sui)
    /\ Len(sui.val.months) - 1 = 12
    /\ LeapEntries = {}

\* the dates of the principal terms: solar terms 0, 2, .. 24
PrincipalTermDates == {TermDate(2 * k) : k \in 0..12}

\* month j of the sui, [its new moon, the next new moon), holds none of
\* the dates
Termless(j, dates) ==
    \A t \in dates : ~(sui.val.months[j].date <= t /\ t < sui.val.months[j + 1].date)

\* C4: in a sui of 13 months the Leap month is the first month, from the
\* eleventh on, that holds the date of no principal term; a term on the day
\* of a new moon belongs to the month beginning that day.
C4_LeapIsFirstTermless ==
    (call = "new" /\ IsSome(sui) /\ Len(sui.val.months) - 1 = 13) =>
        \E dates \in {PrincipalTermDates} :
        \E j \in 1..13 :
            /\ sui.val.months[j].month.kind = "Leap"
            /\ Termless(j, dates)
            /\ \A k \in 1..(j - 1) : ~Termless(k, dates)

\* a leap month whose expected principal term falls on the day of the next
\* new moon
C4_Witness ==
    /\ call = "new" /\ IsSome(sui)
    /\ Len(sui.val.months) - 1 = 13
    /\ \E j \in 1..13 :
        /\ sui.val.months[j].month.kind = "Leap"
        /\ sui.val.months[j + 1].date \in PrincipalTermDates

\* C5: ymd_for gives Ok exactly for months[0].date <= d < months.last().date,
\* Err(Before) exactly for d < months[0].date, Err(After) exactly for
\* d >= months.last().date.
C5_YmdForRange ==
    call = "ymd_for" =>
        /\ IsOk(ret) <=> (Begin <= query /\ query < End)
        /\ ret = Err("Before") <=> query < Begin
        /\ ret = Err("After") <=> query >= End

\* ymd_for asked for the day of the end marker
C5_Witness ==
    call = "ymd_for" /\ query = End /\ ret = Err("After")

C5_WitnessBefore ==
    call = "ymd_for" /\ query = Begin - 1 /\ ret = Err("Before")

C5_WitnessFirstDay ==
    call = "ymd_for" /\ query = Begin /\ IsOk(ret)

\* the last entry of months whose date is <= d
MonthOf(d) ==
    CHOOSE j \in DOMAIN sui.val.months :
        /\ sui.val.months[j].date <= d
        /\ \A k \in DOMAIN sui.val.months : sui.val.months[k].date <= d => k <= j

\* C6: inside the sui's span ymd_for gives Ok((y, m, day)): m the month of
\* the last entry beginning on or before d, day = d - its date + 1, and
\* y = annus - 1 for months 11 and 12, annus for the others.
C6_YmdForValue ==
    (call = "ymd_for" /\ Begin <= query /\ query < End) =>
        LET e == sui.val.months[MonthOf(query)]
        IN  ret = Ok(<< IF e.month.num >= 11 THEN sui.val.annus - 1 ELSE sui.val.annus,
                        e.month,
                        query - e.date + 1 >>)

\* the first day of a leap month
C6_Witness ==
    /\ call = "ymd_for" /\ IsOk(ret)
    /\ ret.val[2].kind = "Leap"
    /\ ret.val[3] = 1
    /\ ret.val[1] = sui.val.annus

\* the thirtieth day of a twelfth month, counted to the year before
C6_WitnessTwelfth ==
    /\ call = "ymd_for" /\ IsOk(ret)
    /\ ret.val = <<sui.val.annus - 1, Common(12), 30>>

\* C7: from_date never comes back to a candidate year it has stepped off
\* (the loop is a function of the date and the candidate, so coming back is
\* stepping back and forth forever); what it returns is a sui whose span
\* holds the date, or None at a candidate year without a record.
C7_FromDateTerminates ==
    call = "from_date" =>
        /\ cand \notin tried
        /\ IsSome(ret) =>
              (ret.val.months[1].date <= query /\ query < Last(ret.val.months).date)
        /\ ret = None => ~EphemerisGet(cand).some

\* C8: for date(solar_term[0]) <= d < date(solar_term[24]) solar_term_for
\* gives Ok((annus, t, off)), the term the latest of terms 0..23 beginning
\* on or before d, t = (index + 21) mod 24 + 1 and off = d - its date; it
\* gives Err(Before) for d < months[0].date and Err(After) for
\* d >= date(solar_term[24]).
C8_SolarTermFor ==
    call = "solar_term_for" =>
        /\ (TermDate(0) <= query /\ query < TermDate(24)) =>
              \E dates \in {[h \in 0..23 |-> TermDate(h)]} :
              \E k \in 0..23 :
                  /\ dates[k] <= query
                  /\ \A h \in 0..23 : dates[h] <= query => h <= k
                  /\ ((k + 21) % 24) + 1 \in 1..24
                  /\ ret = Ok(<<sui.val.annus, ((k + 21) % 24) + 1, query - dates[k]>>)
        /\ query < Begin => ret = Err(<<"OtherAnnus", "Before">>)
        /\ query >= TermDate(24) => ret = Err(<<"OtherAnnus", "After">>)

\* a day from the end marker on, before the next winter solstice
C8_Witness ==
    /\ call = "solar_term_for"
    /\ End <= query /\ query < TermDate(24)
    /\ IsOk(ret)

\* the day of the winter solstice: term 22, offset 0
C8_WitnessSolstice ==
    /\ call = "solar_term_for"
    /\ query = TermDate(0)
    /\ ret = Ok(<<sui.val.annus, 22, 0>>)

\* the day term 3 begins: term 1
C8_WitnessFirstTerm ==
    /\ call = "solar_term_for"
    /\ query = TermDate(3)
    /\ ret = Ok(<<sui.val.annus, 1, 0>>)

\* C9: for months[0].date <= d < date(solar_term[0]) solar_term_for gives
\* Err(NoData) when annus - 1 has no record; otherwise Ok((annus - 1, t,
\* off)) for the later of the previous sui's terms 22 and 23 beginning on
\* or before d, numbered 20 and 21, off = d - its date.  It never aborts.
C9_BeforeSolstice ==
    (call = "solar_term_for" /\ Begin <= query /\ query < TermDate(0)) =>
        LET last_annus == EphemerisGet(sui.val.annus - 1)
            date22 == DateCst(At(last_annus.val.solar_term, 22))
            date23 == DateCst(At(last_annus.val.solar_term, 23))
        IN  /\ ~IsPanic(ret)
            /\ ~last_annus.some => ret = Err("NoData")
            /\ (last_annus.some /\ date23 <= query) =>
                  ret = Ok(<<sui.val.annus - 1, 21, query - date23>>)
            /\ (last_annus.some /\ query < date23) =>
                  /\ date22 <= query
                  /\ ret = Ok(<<sui.val.annus - 1, 20, query - date22>>)

\* a day of the eleventh month before the previous sui's term 23
C9_Witness ==
    /\ call = "solar_term_for"
    /\ Begin <= query /\ query < TermDate(0)
    /\ IsOk(ret) /\ ret.val[1] = sui.val.annus - 1 /\ ret.val[2] = 20

C9_WitnessTerm23 ==
    /\ call = "solar_term_for"
    /\ Begin <= query /\ query < TermDate(0)
    /\ IsOk(ret) /\ ret.val[1] = sui.val.annus - 1 /\ ret.val[2] = 21

C9_WitnessNoData ==
    /\ call = "solar_term_for"
    /\ Begin <= query /\ query < TermDate(0)
    /\ ret = Err("NoData")

---------------------------------------------------------------------------
(* Properties of the time scales *)

\* 1972-01-01T00:00:10 TAI: ten seconds after the midnight that begins the
\* civil day date_in_timezone numbers JDN(1972-01-01), half a day before
\* the Julian date of that number
StartOfUtc == Jd(JdnOf(<<1972, 1, 1>>) - 1, MsPerDay \div 2 + 10 * 1000)

\* C10: Ut::convert fails for exactly the instants before
\* 1972-01-01T00:00:10 TAI and yields a UT for every instant from it on.
C10_FailsBeforeStartOfUtc ==
    call = "convert" => (IsPanic(ret) <=> JdLt(instant, StartOfUtc))

\* TAI minus UT of a conversion that returned, in milliseconds
OffsetMs == (instant.d - ret.jd.d) * MsPerDay + instant.ms - ret.jd.ms

\* the number of leap-second entries at or before the instant
EntriesUpTo(t) ==
    Cardinality({i \in DOMAIN COMPUTED.leap_seconds : JdLe(COMPUTED.leap_seconds[i].tai, t)})

\* C11: for a TAI instant in the tabulated range whose most recent
\* leap-second entry is e, the offset TAI - UT used by Ut::convert rises
\* linearly from e's stored offset at e's instant to one second more two
\* seconds later, and keeps that value until the next entry.
C11_RampTwoSeconds ==
    (/\ call = "convert" /\ ~IsPanic(ret)
     /\ JdLe(instant, COMPUTED.expires)
     /\ EntriesUpTo(instant) > 0)
    => LET e == COMPUTED.leap_seconds[EntriesUpTo(instant)]
       IN  OffsetMs = e.delta_secs * 1000 + JdDiffMsMin(instant, e.tai, 2000) \div 2

\* the Tai that the call under way hands to Ut::convert
ConvertedTai == IF call = "date_cst" THEN TaiFromTdb(instant) ELSE instant

\* C12: asked for an instant before the supported start, Ut::convert (and
\* date_cst, which calls it) returns to its caller with a value that
\* reports the condition; the operation is not aborted.
C12_UnsupportedIsValue ==
    (call \in {"convert", "date_cst"} /\ JdLt(ConvertedTai, COMPUTED.starts))
    => ~IsPanic(ret)

\* the distance from the local time of the UT instant to the noon of the
\* returned date (the Julian date of its number), in milliseconds
AfterLocalNoonMs ==
    (instant.d - ret.date) * MsPerDay + instant.ms + ret.tz_offset_minutes * 60000

C15_WitnessSecondBefore ==
    /\ call = "date_in_timezone"
    /\ ret.tz_offset_minutes = 480
    /\ AfterLocalNoonMs = MsPerDay \div 2 - 1000

---------------------------------------------------------------------------
(* Further properties of the calendar *)

\* the place of entry j among the Common entries of the months
CommonRank(months, j) ==
    Cardinality({k \in 1..j : months[k].month.kind = "Common"})

\* C18: in every Sui returned by Annus::new the first and the last entry
\* of months are Common(11); the Common entries in order are numbered
\* 11, 12, 1, 2, ..., 10, 11; a Leap entry has the number of the Common
\* entry just before it; every number is in 1..=12.
C18_MonthNumbers ==
    (call = "new" /\ IsSome(sui))
    => LET months == sui.val.months
       IN  /\ months[1].month = Common(11)
           /\ Last(months).month = Common(11)
           /\ CommonRank(months, Len(months)) = 13
           /\ \A j \in DOMAIN months :
                /\ months[j].month.num \in 1..12
                /\ months[j].month.kind = "Common"
                   => months[j].month.num = ((9 + CommonRank(months, j)) % 12) + 1
                /\ months[j].month.kind = "Leap"
                   => j > 1 /\ months[j - 1].month = Common(months[j].month.num)

\* a sui of thirteen months whose leap month follows a month numbered
\* below 11: the numbers then run 11, 12, 1, .., n, n, n + 1, .., 11
C18_Witness ==
    /\ call = "new" /\ IsSome(sui)
    /\ \E j \in DOMAIN sui.val.months :
         /\ sui.val.months[j].month.kind = "Leap"
         /\ sui.val.months[j].month.num < 11
         /\ sui.val.months[j - 1].month = Common(sui.val.months[j].month.num)
         /\ sui.val.months[j + 1].month = Common(sui.val.months[j].month.num + 1)

\* the instants of the new moons of an ephemeris record
NewMoons(ephemeris) == {ephemeris.moon_phase[i][1] : i \in 1..15}

\* two records of consecutive years describe the same instants: the last
\* solstice of the first is the first of the second, and the new moons
\* the second begins with are new moons of the first
SameSky(a, b) ==
    /\ At(a.solar_term, 24) = At(b.solar_term, 0)
    /\ b.moon_phase[1][1] \in NewMoons(a)
    /\ b.moon_phase[2][1] \in NewMoons(a)

\* C19: for consecutive years N and N + 1 whose records describe the same
\* instants, the end marker of sui N (months.last().date) is months[0].date
\* of sui N + 1, a new moon on the day of the winter solstice included.
C19_ConsecutiveSuiMeet ==
    (/\ call = "new" /\ IsSome(sui)
     /\ EphemerisGet(sui.val.annus + 1).some
     /\ SameSky(sui.val.ephemeris, EphemerisGet(sui.val.annus + 1).val))
    => \E next \in {AnnusNew(sui.val.annus + 1)} :
         IsSome(next) /\ End = next.val.months[1].date

\* Annus::new's view of the record of EphFirst: the dates of its new
\* moons and of its two winter solstices
RecordNewMoonDates == [i \in 1..15 |-> DateCst(DATA[EphFirst].moon_phase[i][1])]
RecordWs == DateCst(At(DATA[EphFirst].solar_term, 0))
RecordWsNext == DateCst(At(DATA[EphFirst].solar_term, 24))

\* the month count between the winter solstices, m11n_idx - m11_idx
RecordMonthCount ==
    PartitionPointLt(RecordNewMoonDates, RecordWsNext)
        - PartitionPointLe(RecordNewMoonDates, RecordWs)

\* Annus::new has returned a Sui with a Leap entry among its first 13
LeapWithinThirteen ==
    /\ IsSome(ret)
    /\ \E j \in 1..13 : j <= Len(ret.val.months) /\ ret.val.months[j].month.kind = "Leap"

---------------------------------------------------------------------------
(* Properties of the lazily built statics *)

\* the contents of the static of a table, and what its body builds
TableNow(tb) == IF tb = "leap_seconds" THEN COMPUTED ELSE DATA
TableBuilt(tb) == IF tb = "leap_seconds" THEN LeapSecondsData ELSE ParseRawData(moon)
TableUnbuilt(tb) == IF tb = "leap_seconds" THEN Uncomputed ELSE <<>>

\* C16: under every interleaving of concurrent first calls to
\* leap_seconds::data() and to ephemeris::Annus::get, the initialisation
\* body runs exactly once (never twice, and once by the time the Once is
\* complete or a caller is past call_once), no caller takes the table
\* before the initialisation has completed (a caller past call_once finds
\* the Once complete and what it takes is the finished table), and a
\* completed table is never modified (it stays the finished table; before
\* the body starts it is the untouched static).
C16_InitOnce ==
    \A tb \in Tables :
        /\ ran[tb] <= 1
        /\ INIT[tb] = "incomplete" => (ran[tb] = 0 /\ TableNow(tb) = TableUnbuilt(tb))
        /\ INIT[tb] = "complete" => (ran[tb] = 1 /\ TableNow(tb) = TableBuilt(tb))
        /\ \A t \in Threads :
              (threads[t].pc \in {"get", "done"} /\ threads[t].table = tb)
              => /\ INIT[tb] = "complete"
                 /\ threads[t].pc = "done" => threads[t].got = TableBuilt(tb)

\* two first calls at once: one thread is in the middle of the loop of the
\* body of leap_seconds::data while another waits in call_once on it
C16_Witness ==
    \E t, u \in Threads :
        /\ t # u
        /\ threads[t].pc = "push" /\ threads[t].k > 1
        /\ threads[u].pc = "call_once" /\ threads[u].table = "leap_seconds"

\* both callers hold the finished table of ephemeris::Annus::get, built once
C16_WitnessBothServed ==
    /\ ran["ephemeris"] = 1
    /\ \A t \in Threads : threads[t].pc = "done" /\ threads[t].table = "ephemeris"

=============================================================================
